---- MODULE Spec2Model ----
(***************************************************************************)
(* Rolling-window orchestration of the Skytap HYSPLIT pipeline.            *)
(*                                                                         *)
(*   Skytap_Controller.main      the window manager (control loop)         *)
(*   ARL_download_controller     the fetch step (download_arl_files)       *)
(*   HYSPLIT_Controller / _Prep  the coverage calculator (get_date_range)  *)
(*   HYSPLIT_Controller          the job materializer (make_run_dirs)      *)
(*   HYSPLIT_Runner              the parallel job executor (HysplitRunner) *)
(*                                                                         *)
(* Input artifacts are identified by their index in the master list        *)
(* txt_files/ARLfilelist.txt (all_urls).  Time is counted in whole hours.  *)
(***************************************************************************)
EXTENDS Integers, Sequences, FiniteSets, TLC

\* ------------------------------------------------------------------ bounds
MaxFiles == 6       \* largest master list (total_files) explored
MaxWindow == 3      \* largest pipeline.window_size explored
MaxStep == 3        \* largest pipeline.window_step explored
MaxRuns == 2        \* restarts (after a crash, an abort or a finished run)
MaxList == 3        \* longest list handed to get_date_range on its own
MaxSlot == 4        \* last 6-hourly slot a free-standing file name may carry
MaxJobs == 2        \* largest batch handed to HysplitRunner on its own
MaxWorkers == 2     \* largest hysplit.max_workers explored
MaxDay == 1         \* last day a site's start_date or end_date may name
MaxSpan == 1        \* valid hours handed to make_run_dirs: this far around midnight
MaxRounds == 2      \* calls of make_run_dirs on the same temporary root

\* ------------------------------------------------------- program constants
FilesPerDay == 4            \* for bb in range(4)
SlotHours == 6              \* 00-05, 06-11, 12-17, 18-23
CoverageHours == 5          \* timedelta(hours=5)
LookbackHours == 12         \* timedelta(hours=12)
HoursPerDay == 24
Underscore == 95            \* "_", the separator of name.split("_")
CharZero == 48              \* "0"; characters are code points, as sorted() sees them
MissingControlCode == 999       \* return run_dir.name, 999, "Missing CONTROL"
TimeoutCode == 124       \* return run_dir.name, 124, f"Timeout after ..."
ExeNotFoundCode == 127          \* return run_dir.name, 127, f"Executable not found"

VARIABLES
  total_files,      \* len(all_urls)
  window_size,      \* pipeline.window_size
  step,             \* pipeline.window_step
  pc,               \* position of main()
  state_idx,        \* state['current_idx'] as stored in the state file
  current_idx,      \* main's local current_idx
  on_disk_urls,     \* main's local on_disk_urls (indices into all_urls)
  met_dir,          \* the artifacts present in hysplit.met_dir
  temp_list,        \* txt_files/ARL_temp_file_list.txt (NoFile when absent)
  run_dirs,         \* job directories under temp_HYSPLIT_config_dir (by hour)
  valid_datetimes,  \* HYSPLIT_Controller's valid_datetimes of the last cycle
  cov_input,        \* what get_met_files returned in the last cycle
  control_met,      \* the met files listed in the CONTROL files of run_dirs, as sorted
  saved_idx,        \* main's local saved_idx of the current run
  resumed,          \* this run: 0 < saved_idx < total_files and resume accepted
  windows,          \* cursors of the cycles this run has started, in order
  covered,          \* the valid hours of this run's cycles, all together
  fetched,          \* batches this run handed to download_arl_files, in order
  evictions,        \* this run's delete_files calls: what each removed, what was oldest
  completed,        \* cursors whose cycle ran and was cleaned up (since a reset)
  reprocessed,      \* a resumed run gave a completed cursor a second cycle
  crash_cursor,     \* cursor of the cycle a crash interrupted, else -1
  degraded,         \* a fetch of this run returned without fetching
  runs,             \* restarts so far
  met_files,        \* argument of a free-standing get_date_range call
  cov_result,       \* its result
  cov_jobs,         \* the job directories the caller then made
  cov_pc,           \* which module ran
  max_workers,      \* hysplit.max_workers
  exec_jobs,        \* HysplitRunner's run_dirs: the (site, hour) of each, sorted by name
  future,           \* per job: the state of its future and the tuple it holds
  procs,            \* jobs whose HYSPLIT process is alive
  out_files,        \* per job: the output file in the job directory
  attempts,         \* per job: calls of subprocess.run so far
  cleared,          \* per job: the output file run_hysplit_in_dir removed before the launch
  exited,           \* per job: how its HYSPLIT process ended
  counted,          \* per job: the counter HysplitRunner added it to
  printed,          \* per job: the diagnostic HysplitRunner printed for it
  n_ok,             \* HysplitRunner's local ok
  n_fail,           \* HysplitRunner's local fail
  traj,             \* files under hysplit.traj_root, by site directory
  runner_pc,        \* position of HysplitRunner
  site_cfg,         \* cfg['site_hysplit_configs']: start_date, end_date per site
  mat_met,          \* the files of hysplit.met_dir with 'hrrr' in their name
  job_dirs,         \* temp_HYSPLIT_config_dir: run directories and their CONTROL
  mat_valid,        \* the valid_datetimes of the last make_run_dirs call
  mat_calls,        \* the (site, hour) pairs that call wrote a CONTROL for
  mat_made,         \* every (site, hour) pair written so far
  mat_twice,        \* the pairs written by more than one call
  mat_rounds,       \* calls of make_run_dirs so far
  mat_pc,           \* how the last call ended
  bdyfiles          \* temp_HYSPLIT_config_dir/bdyfiles: whether it exists, its files

confVars == <<total_files, window_size, step>>
progVars == <<pc, state_idx, current_idx, on_disk_urls, met_dir, temp_list,
              run_dirs, valid_datetimes, cov_input, control_met>>
histVars == <<saved_idx, resumed, windows, covered, fetched, evictions, completed,
              reprocessed, crash_cursor, degraded, runs>>
covVars == <<met_files, cov_result, cov_jobs, cov_pc>>
execVars == <<max_workers, exec_jobs, future, procs, out_files, attempts,
              cleared, exited, counted, printed, n_ok, n_fail, traj,
              runner_pc>>
matVars == <<site_cfg, mat_met, job_dirs, mat_valid, mat_calls, mat_made,
             mat_twice, mat_rounds, mat_pc, bdyfiles>>
\* the components when they run on their own
unitVars == <<covVars, execVars, matVars>>
vars == <<confVars, progVars, histVars, unitVars>>

\* the manifest file: absent, or holding a list of URLs
NoFile == [exists |-> FALSE, urls |-> <<>>]

ListFile(urls) == [exists |-> TRUE, urls |-> urls]

\* the outcome of a call: a returned list, or an exception
Returned(v) == [raised |-> FALSE, value |-> v]

Raised == [raised |-> TRUE, value |-> <<>>]

\* ----------------------------------------------------------------- helpers
Min(a, b) == IF a <= b THEN a ELSE b

Max(a, b) == IF a >= b THEN a ELSE b

\* ceil(a / b) for b > 0
Ceil(a, b) == (a + b - 1) \div b

\* the indices a, a+1, ..., b-1 as a list
Range(a, b) == [i \in 1..Max(b - a, 0) |-> a + i - 1]

Elems(s) == {s[i] : i \in DOMAIN s}

SetMin(S) == CHOOSE x \in S : \A y \in S : x <= y

SetMax(S) == CHOOSE x \in S : \A y \in S : x >= y

\* the k lowest members of S
Oldest(S, k) == {x \in S : Cardinality({y \in S : y < x}) < k}

\* all_urls[a:b]
UrlSlice(a, b) == Range(Min(Max(a, 0), total_files), Min(Max(b, 0), total_files))

\* lst[:k] and lst[k:]
Head_(lst, k) == SubSeq(lst, 1, Min(k, Len(lst)))

Tail_(lst, k) == SubSeq(lst, Min(k, Len(lst)) + 1, Len(lst))

\* ------------------------------------------------ the master list of URLs
\* ARL_downloader_config.py: one URL per day and bb in range(4).  Days before
\* the format change carry the dotted name hysplit.YYYYMMDD.HHz.hrrra, later
\* days the underscore name YYYYMMDD_HH-xx_hrrr.
FileName(kind, slot) ==
  LET date == slot \div FilesPerDay
      hour == SlotHours * (slot % FilesPerDay)
  IN  IF kind = "dotted"
      THEN [kind |-> kind, p1 |-> date, p2 |-> hour]   \* .YYYYMMDD.HHz.hrrra
      ELSE [kind |-> kind, p0 |-> date, p1 |-> hour]   \* YYYYMMDD_HH-xx_hrrr

UrlOf(i) ==
  FileName(IF i \div FilesPerDay < 1 THEN "dotted" ELSE "underscore", i)

Urls(lst) == [k \in DOMAIN lst |-> UrlOf(lst[k])]

\* --------------------------------------------------- coverage calculator
\* datetime.strptime(date_str + time_str, "%Y%m%d%H"), in hours
StartTime(mf) ==
  IF mf.kind = "dotted"
  THEN HoursPerDay * mf.p1 + mf.p2     \* parts[1], parts[2][:-1]
  ELSE HoursPerDay * mf.p0 + mf.p1     \* parts[0], parts[1][:2]

FileStartTimes(mfs) == [k \in DOMAIN mfs |-> StartTime(mfs[k])]

\* ValidHours with the six-hour coverage of the docstring (hours=6)
ValidHours_SixHours(starts) ==
  LET file_end_times == {t + CoverageHours + 1 : t \in Elems(starts)}
      earliest_valid == SetMin(Elems(starts)) + LookbackHours
      latest_valid == SetMax(file_end_times)
  IN  Range(earliest_valid, latest_valid + 1)

\* ValidHours whose loop appends before testing (do ... while t <= latest_valid)
ValidHours_AppendFirst(starts) ==
  LET file_end_times == {t + CoverageHours : t \in Elems(starts)}
      earliest_valid == SetMin(Elems(starts)) + LookbackHours
      latest_valid == SetMax(file_end_times)
  IN  <<earliest_valid>> \o Range(earliest_valid + 1, latest_valid + 1)

\* the while loop: every hour t with earliest_valid <= t <= latest_valid
ValidHours(starts) ==
  LET file_end_times == {t + CoverageHours : t \in Elems(starts)}
      earliest_valid == SetMin(Elems(starts)) + LookbackHours
      latest_valid == SetMax(file_end_times)
  IN  Range(earliest_valid, latest_valid + 1)

\* HYSPLIT_Controller.get_date_range
get_date_range(mfs) ==
  LET file_start_times == FileStartTimes(mfs)
  IN  IF file_start_times = <<>>
      THEN Returned(<<>>)
      ELSE Returned(ValidHours(file_start_times))

\* HYSPLIT_Prep.get_date_range: no guard, min() of an empty list raises
Prep_get_date_range(mfs) ==
  LET file_start_times == FileStartTimes(mfs)
  IN  IF file_start_times = <<>>
      THEN Raised
      ELSE Returned(ValidHours(file_start_times))

\* __main__ of both modules: one job directory per valid hour (for a site whose
\* date range holds them all); HYSPLIT_Controller skips an empty list
JobDirs(valid) == IF valid = <<>> THEN {} ELSE Elems(valid)

\* ------------------------------------------------------------- the fetch
FetchOutcomes == {"ok", "write_error", "script_failed", "files_missing"}

\* download_arl_files(urls): the manifest it leaves, the directory it leaves,
\* and whether it raised.  got is what Downloader.sh brought before it stopped.
Download(urls, outcome, got) ==
  IF outcome = "write_error"
  THEN [list |-> temp_list, dir |-> met_dir, raised |-> FALSE]
  ELSE IF outcome = "ok"
  THEN [list |-> ListFile(urls), dir |-> met_dir \cup Elems(urls), raised |-> FALSE]
  ELSE [list |-> ListFile(urls), dir |-> met_dir \cup got, raised |-> TRUE]

\* what Downloader.sh may have brought under each outcome
Brought(urls, outcome) ==
  IF outcome = "ok" THEN {Elems(urls)}
  ELSE IF outcome = "write_error" THEN {{}}
  ELSE IF outcome = "script_failed"
  THEN {Elems(Head_(urls, k)) : k \in 0..Len(urls)}
  ELSE {g \in {Elems(Head_(urls, k)) : k \in 0..Len(urls)} :
          ~(Elems(urls) \subseteq met_dir \cup g)}

\* ------------------------------------------------------ the control loop
ProcessPhase == {"PROCESS", "JOBS", "PROMPT", "CLEANUP"}

Running == {"START", "FETCH_INITIAL", "ADVANCE", "EVICTED", "SAVED"} \cup ProcessPhase

Stopped == {"DONE", "ABORTED"}

\* all_urls[current_idx : current_idx + window_size]
Window(c) == UrlSlice(c, c + window_size)

\* StartRun that forgets the saved cursor
StartRun_FromZero ==
  /\ pc = "START"
  /\ \E yes \in BOOLEAN :
       LET saved == state_idx
           reset == saved > 0 /\ (saved >= total_files \/ ~yes)
           start == 0
       IN  /\ saved_idx' = saved
           /\ resumed' = (saved > 0 /\ saved < total_files /\ yes)
           /\ current_idx' = start
           /\ state_idx' = IF reset THEN 0 ELSE state_idx
           /\ completed' = IF reset THEN {} ELSE completed
           /\ reprocessed' = IF reset THEN FALSE ELSE reprocessed
           /\ crash_cursor' = IF reset THEN -1 ELSE crash_cursor
           /\ pc' = IF Window(start) = <<>> THEN "DONE" ELSE "FETCH_INITIAL"
  /\ UNCHANGED <<confVars, unitVars, on_disk_urls, met_dir, temp_list, run_dirs,
                 valid_datetimes, cov_input, control_met, windows, covered, fetched, evictions,
                 degraded, runs>>

\* StartRun that resumes one step after the saved cursor
StartRun_SkipsAhead ==
  /\ pc = "START"
  /\ \E yes \in BOOLEAN :
       LET saved == state_idx
           reset == saved > 0 /\ (saved >= total_files \/ ~yes)
           start == IF saved > 0 /\ saved < total_files /\ yes THEN saved + step ELSE 0
       IN  /\ saved_idx' = saved
           /\ resumed' = (saved > 0 /\ saved < total_files /\ yes)
           /\ current_idx' = start
           /\ state_idx' = IF reset THEN 0 ELSE state_idx
           /\ completed' = IF reset THEN {} ELSE completed
           /\ reprocessed' = IF reset THEN FALSE ELSE reprocessed
           /\ crash_cursor' = IF reset THEN -1 ELSE crash_cursor
           /\ pc' = IF Window(start) = <<>> THEN "DONE" ELSE "FETCH_INITIAL"
  /\ UNCHANGED <<confVars, unitVars, on_disk_urls, met_dir, temp_list, run_dirs,
                 valid_datetimes, cov_input, control_met, windows, covered, fetched, evictions,
                 degraded, runs>>

\* StartRun that resets its cursor but leaves the state file as it found it
StartRun_NoReset ==
  /\ pc = "START"
  /\ \E yes \in BOOLEAN :
       LET saved == state_idx
           reset == saved > 0 /\ (saved >= total_files \/ ~yes)
           start == IF saved > 0 /\ saved < total_files /\ yes THEN saved ELSE 0
       IN  /\ saved_idx' = saved
           /\ resumed' = (saved > 0 /\ saved < total_files /\ yes)
           /\ current_idx' = start
           /\ state_idx' = state_idx
           /\ completed' = IF reset THEN {} ELSE completed
           /\ reprocessed' = IF reset THEN FALSE ELSE reprocessed
           /\ crash_cursor' = IF reset THEN -1 ELSE crash_cursor
           /\ pc' = IF Window(start) = <<>> THEN "DONE" ELSE "FETCH_INITIAL"
  /\ UNCHANGED <<confVars, unitVars, on_disk_urls, met_dir, temp_list, run_dirs,
                 valid_datetimes, cov_input, control_met, windows, covered, fetched, evictions,
                 degraded, runs>>

\* main, lines 431-460: load the state, decide where to start, cut first_batch
StartRun ==
  /\ pc = "START"
  /\ \E yes \in BOOLEAN :
       LET saved == state_idx
           reset == saved > 0 /\ (saved >= total_files \/ ~yes)
           start == IF saved > 0 /\ saved < total_files /\ yes THEN saved ELSE 0
       IN  /\ saved_idx' = saved
           /\ resumed' = (saved > 0 /\ saved < total_files /\ yes)
           /\ current_idx' = start
           /\ state_idx' = IF reset THEN 0 ELSE state_idx
           /\ completed' = IF reset THEN {} ELSE completed
           /\ reprocessed' = IF reset THEN FALSE ELSE reprocessed
           /\ crash_cursor' = IF reset THEN -1 ELSE crash_cursor
           /\ pc' = IF Window(start) = <<>> THEN "DONE" ELSE "FETCH_INITIAL"
  /\ UNCHANGED <<confVars, unitVars, on_disk_urls, met_dir, temp_list, run_dirs,
                 valid_datetimes, cov_input, control_met, windows, covered, fetched, evictions,
                 degraded, runs>>

\* main, lines 462-466: download first_batch, then track it
FetchInitial(outcome) ==
  /\ pc = "FETCH_INITIAL"
  /\ \E got \in Brought(Window(current_idx), outcome) :
       LET first_batch == Window(current_idx)
           d == Download(first_batch, outcome, got)
       IN  /\ temp_list' = d.list
           /\ met_dir' = d.dir
           /\ fetched' = Append(fetched, first_batch)
           /\ degraded' = (degraded \/ outcome = "write_error")
           /\ IF d.raised
              THEN pc' = "ABORTED" /\ UNCHANGED on_disk_urls
              ELSE pc' = "PROCESS" /\ on_disk_urls' = first_batch
  /\ UNCHANGED <<confVars, unitVars, state_idx, current_idx, run_dirs,
                 valid_datetimes, cov_input, control_met, saved_idx, resumed, windows, covered,
                 evictions, completed, reprocessed, crash_cursor, runs>>

\* the order of two file names as strings: an underscore name starts with a
\* digit and a dotted name with "h", and names of one format differ in their
\* zero-padded date and hour only
MetNameLess(a, b) ==
  IF a.kind # b.kind THEN a.kind = "underscore" ELSE StartTime(a) < StartTime(b)

\* write_control: sorted([mf for mf in os.listdir(met_dir) if 'hrrr' in mf])
SortedMet(S) ==
  [k \in 1..Cardinality(S) |->
     CHOOSE x \in S :
       Cardinality({y \in S : MetNameLess(UrlOf(y), UrlOf(x))}) = k - 1]

\* main, line 472, and HYSPLIT_Controller.__main__ up to make_run_dirs
Materialize ==
  /\ pc = "PROCESS"
  /\ windows' = Append(windows, current_idx)
  /\ reprocessed' = (reprocessed \/ (resumed /\ current_idx \in completed))
  /\ IF ~temp_list.exists
     THEN /\ pc' = "PROMPT"
          /\ UNCHANGED <<cov_input, control_met, valid_datetimes, run_dirs,
                         covered>>
     ELSE LET valid == get_date_range(Urls(temp_list.urls)).value
          IN  /\ cov_input' = temp_list.urls
              /\ valid_datetimes' = valid
              /\ covered' = covered \cup Elems(valid)
              /\ IF valid = <<>>
                 THEN pc' = "CLEANUP" /\ UNCHANGED <<run_dirs, control_met>>
                 ELSE IF met_dir = {}
                 THEN /\ pc' = "PROMPT"
                      /\ run_dirs' = run_dirs \cup {valid[1]}
                      /\ UNCHANGED control_met
                 ELSE /\ pc' = "JOBS"
                      /\ run_dirs' = run_dirs \cup JobDirs(valid)
                      /\ control_met' = SortedMet(met_dir)
  /\ UNCHANGED <<confVars, unitVars, state_idx, current_idx, on_disk_urls,
                 met_dir, temp_list, saved_idx, resumed, fetched, evictions,
                 completed, crash_cursor, degraded, runs>>

\* RunJobs with the cursor advanced and saved as soon as the jobs have run
RunJobs_SavesState(ok) ==
  /\ pc = "JOBS"
  /\ IF ok
     THEN /\ pc' = "CLEANUP"
          /\ run_dirs' = {}
          /\ control_met' = <<>>
          /\ state_idx' = current_idx + step
     ELSE pc' = "PROMPT" /\ UNCHANGED <<run_dirs, control_met, state_idx>>
  /\ UNCHANGED <<confVars, unitVars, histVars, current_idx,
                 on_disk_urls, met_dir, temp_list, valid_datetimes, cov_input>>

\* HYSPLIT_Controller.__main__, lines 258-263: the runner, then remove_run_dirs;
\* the controller may also die on the way (ret.returncode != 0)
RunJobs(ok) ==
  /\ pc = "JOBS"
  /\ IF ok
     THEN pc' = "CLEANUP" /\ run_dirs' = {} /\ control_met' = <<>>
     ELSE pc' = "PROMPT" /\ UNCHANGED <<run_dirs, control_met>>
  /\ UNCHANGED <<confVars, unitVars, histVars, state_idx, current_idx,
                 on_disk_urls, met_dir, temp_list, valid_datetimes, cov_input>>

\* main, lines 473-476: "HYSPLIT run failed. Continue to next batch?"
Prompt(continue) ==
  /\ pc = "PROMPT"
  /\ pc' = IF continue THEN "CLEANUP" ELSE "ABORTED"
  /\ UNCHANGED <<confVars, unitVars, histVars, state_idx, current_idx,
                 on_disk_urls, met_dir, temp_list, run_dirs, valid_datetimes,
                 cov_input, control_met>>

\* main, line 481: clean_hysplit_dirs
Clean ==
  /\ pc = "CLEANUP"
  /\ run_dirs' = {}
  /\ control_met' = <<>>
  /\ completed' = completed \cup {current_idx}
  /\ pc' = "ADVANCE"
  /\ UNCHANGED <<confVars, unitVars, state_idx, current_idx, on_disk_urls,
                 met_dir, temp_list, valid_datetimes, cov_input, saved_idx,
                 resumed, windows, covered, fetched, evictions, reprocessed,
                 crash_cursor, degraded, runs>>

\* Finish that saves the end of the window in place of the length of the list
Finish_SavesWindowEnd ==
  /\ pc = "ADVANCE"
  /\ current_idx + window_size >= total_files
  /\ state_idx' = current_idx + window_size
  /\ pc' = "DONE"
  /\ UNCHANGED <<confVars, unitVars, histVars, current_idx, on_disk_urls,
                 met_dir, temp_list, run_dirs, valid_datetimes, cov_input, control_met>>

\* main, lines 485-489: the window reached the end of all_urls
Finish ==
  /\ pc = "ADVANCE"
  /\ current_idx + window_size >= total_files
  /\ state_idx' = total_files
  /\ pc' = "DONE"
  /\ UNCHANGED <<confVars, unitVars, histVars, current_idx, on_disk_urls,
                 met_dir, temp_list, run_dirs, valid_datetimes, cov_input, control_met>>

\* Evict that deletes the step newest tracked files (on_disk_urls[-step:])
Evict_Newest(undeletable) ==
  /\ pc = "ADVANCE"
  /\ ~(current_idx + window_size >= total_files)
  /\ LET to_delete == Tail_(on_disk_urls, Max(Len(on_disk_urls) - step, 0))
         removed == (Elems(to_delete) \cap met_dir) \ undeletable
     IN  /\ met_dir' = met_dir \ removed
         /\ evictions' = Append(evictions,
                              [deleted |-> removed,
                               failed |-> (Elems(to_delete) \cap met_dir) \ removed,
                               oldest |-> Oldest(met_dir, step)])
  /\ pc' = "EVICTED"
  /\ UNCHANGED <<confVars, unitVars, state_idx, current_idx, on_disk_urls,
                 temp_list, run_dirs, valid_datetimes, cov_input, control_met, saved_idx,
                 resumed, windows, covered, fetched, completed, reprocessed,
                 crash_cursor, degraded, runs>>

\* main, lines 494-496, and delete_files: unlink the step oldest tracked
\* files that exist; an unlink that raises (the files of undeletable) is
\* printed and the loop goes on
Evict(undeletable) ==
  /\ pc = "ADVANCE"
  /\ ~(current_idx + window_size >= total_files)
  /\ LET to_delete == Head_(on_disk_urls, step)
         removed == (Elems(to_delete) \cap met_dir) \ undeletable
     IN  /\ met_dir' = met_dir \ removed
         /\ evictions' = Append(evictions,
                              [deleted |-> removed,
                               failed |-> (Elems(to_delete) \cap met_dir) \ removed,
                               oldest |-> Oldest(met_dir, step)])
  /\ pc' = "EVICTED"
  /\ UNCHANGED <<confVars, unitVars, state_idx, current_idx, on_disk_urls,
                 temp_list, run_dirs, valid_datetimes, cov_input, control_met, saved_idx,
                 resumed, windows, covered, fetched, completed, reprocessed,
                 crash_cursor, degraded, runs>>

\* Persist that advances the cursor by one file instead of by step
Persist_ByOne ==
  /\ pc = "EVICTED"
  /\ current_idx' = current_idx + 1
  /\ state_idx' = current_idx + 1
  /\ pc' = "SAVED"
  /\ UNCHANGED <<confVars, unitVars, histVars, on_disk_urls, met_dir,
                 temp_list, run_dirs, valid_datetimes, cov_input, control_met>>

\* main, lines 499-504: advance the cursor and save the state
Persist ==
  /\ pc = "EVICTED"
  /\ current_idx' = current_idx + step
  /\ state_idx' = current_idx + step
  /\ pc' = "SAVED"
  /\ UNCHANGED <<confVars, unitVars, histVars, on_disk_urls, met_dir,
                 temp_list, run_dirs, valid_datetimes, cov_input, control_met>>

\* FetchNext that asks for the whole new window again
FetchNext_FromCursor(outcome) ==
  /\ pc = "SAVED"
  /\ LET dl_start == current_idx
         dl_end == current_idx + window_size
         new_batch == UrlSlice(dl_start, dl_end)
     IN  IF new_batch = <<>>
         THEN /\ pc' = "DONE"
              /\ UNCHANGED <<temp_list, met_dir, fetched, degraded, on_disk_urls>>
         ELSE \E got \in Brought(new_batch, outcome) :
                LET d == Download(new_batch, outcome, got)
                IN  /\ temp_list' = d.list
                    /\ met_dir' = d.dir
                    /\ fetched' = Append(fetched, new_batch)
                    /\ degraded' = (degraded \/ outcome = "write_error")
                    /\ IF d.raised
                       THEN pc' = "ABORTED" /\ UNCHANGED on_disk_urls
                       ELSE /\ pc' = "PROCESS"
                            /\ on_disk_urls' = Tail_(on_disk_urls, step) \o new_batch
  /\ UNCHANGED <<confVars, unitVars, state_idx, current_idx, run_dirs,
                 valid_datetimes, cov_input, control_met, saved_idx, resumed, windows, covered,
                 evictions, completed, reprocessed, crash_cursor, runs>>

\* FetchNext that goes on tracking the files it has just evicted
FetchNext_KeepsEvicted(outcome) ==
  /\ pc = "SAVED"
  /\ LET dl_start == current_idx + (window_size - step)
         dl_end == current_idx + window_size
         new_batch == UrlSlice(dl_start, dl_end)
     IN  IF new_batch = <<>>
         THEN /\ pc' = "DONE"
              /\ UNCHANGED <<temp_list, met_dir, fetched, degraded, on_disk_urls>>
         ELSE \E got \in Brought(new_batch, outcome) :
                LET d == Download(new_batch, outcome, got)
                IN  /\ temp_list' = d.list
                    /\ met_dir' = d.dir
                    /\ fetched' = Append(fetched, new_batch)
                    /\ degraded' = (degraded \/ outcome = "write_error")
                    /\ IF d.raised
                       THEN pc' = "ABORTED" /\ UNCHANGED on_disk_urls
                       ELSE /\ pc' = "PROCESS"
                            /\ on_disk_urls' = on_disk_urls \o new_batch
  /\ UNCHANGED <<confVars, unitVars, state_idx, current_idx, run_dirs,
                 valid_datetimes, cov_input, control_met, saved_idx, resumed, windows, covered,
                 evictions, completed, reprocessed, crash_cursor, runs>>

\* main, lines 510-524: download new_batch and re-track the window
FetchNext(outcome) ==
  /\ pc = "SAVED"
  /\ LET dl_start == current_idx + (window_size - step)
         dl_end == current_idx + window_size
         new_batch == UrlSlice(dl_start, dl_end)
     IN  IF new_batch = <<>>
         THEN /\ pc' = "DONE"
              /\ UNCHANGED <<temp_list, met_dir, fetched, degraded, on_disk_urls>>
         ELSE \E got \in Brought(new_batch, outcome) :
                LET d == Download(new_batch, outcome, got)
                IN  /\ temp_list' = d.list
                    /\ met_dir' = d.dir
                    /\ fetched' = Append(fetched, new_batch)
                    /\ degraded' = (degraded \/ outcome = "write_error")
                    /\ IF d.raised
                       THEN pc' = "ABORTED" /\ UNCHANGED on_disk_urls
                       ELSE /\ pc' = "PROCESS"
                            /\ on_disk_urls' = Tail_(on_disk_urls, step) \o new_batch
  /\ UNCHANGED <<confVars, unitVars, state_idx, current_idx, run_dirs,
                 valid_datetimes, cov_input, control_met, saved_idx, resumed, windows, covered,
                 evictions, completed, reprocessed, crash_cursor, runs>>

\* a new process: main's locals and the controller's are gone, the files stay
Restart ==
  /\ pc' = "START"
  /\ current_idx' = 0
  /\ on_disk_urls' = <<>>
  /\ valid_datetimes' = <<>>
  /\ cov_input' = <<>>
  /\ saved_idx' = 0
  /\ resumed' = FALSE
  /\ windows' = <<>>
  /\ covered' = {}
  /\ fetched' = <<>>
  /\ evictions' = <<>>
  /\ degraded' = FALSE
  /\ UNCHANGED <<confVars, unitVars, state_idx, met_dir, temp_list, run_dirs,
                 control_met, completed, reprocessed>>

\* the process dies anywhere in main and is started again: the files stay,
\* main's locals are lost
Crash ==
  /\ pc \in Running \ {"START"}
  /\ runs < MaxRuns
  /\ runs' = runs + 1
  /\ crash_cursor' = IF pc \in ProcessPhase THEN current_idx ELSE -1
  /\ Restart

\* the operator starts the pipeline again after it ended
Rerun ==
  /\ pc \in Stopped
  /\ runs < MaxRuns
  /\ runs' = runs + 1
  /\ crash_cursor' = -1
  /\ Restart

\* ------------------------------------------------------ job directories
\* two decimal digits (%d, %H; the model's dates are day numbers below 100)
Digits(n) == <<CharZero + ((n \div 10) % 10), CharZero + (n % 10)>>

\* RunName without the hour: f"{site_abbr}_{start_time:%Y%m%d}"
RunName_NoHour(site, t) ==
  site \o <<Underscore>> \o Digits(t \div HoursPerDay)

\* make_run_dir: f"{site_abbr}_{start_time:%Y%m%d_%H}"
RunName(site, t) ==
  site \o <<Underscore>> \o Digits(t \div HoursPerDay)
       \o <<Underscore>> \o Digits(t % HoursPerDay)

\* str < str: the first differing code point decides, a proper prefix is smaller
LexLess(a, b) ==
  \E k \in 1..(Min(Len(a), Len(b)) + 1) :
    /\ \A i \in 1..(k - 1) : a[i] = b[i]
    /\ \/ k > Len(a) /\ k <= Len(b)
       \/ k <= Len(a) /\ k <= Len(b) /\ a[k] < b[k]

\* sorted(...) of a set of jobs, by directory name
SortedJobs(S) ==
  CHOOSE q \in [1..Cardinality(S) -> S] :
    \A i, j \in 1..Cardinality(S) :
      i < j => LexLess(RunName(q[i].site, q[i].t), RunName(q[j].site, q[j].t))

\* name.split("_")[0]
SplitFirst(name) ==
  LET cut == {k \in 1..Len(name) : name[k] = Underscore}
  IN  IF cut = {} THEN name ELSE SubSeq(name, 1, SetMin(cut) - 1)

\* ------------------------------------------------------ job materializer
\* datetime.strptime(cfg[...]['start_date'], "%Y-%m-%d"): midnight of the day
Midnight(day) == HoursPerDay * day

\* Selected with the test the comment announces: the ranges overlap
Selected_Overlap(cfg, valid) ==
  {z \in DOMAIN cfg : /\ Midnight(cfg[z].start_date) <= valid[Len(valid)]
                      /\ Midnight(cfg[z].end_date) >= valid[1]}

\* make_run_dirs: start <= valid_datetimes[0] and end >= valid_datetimes[-1]
Selected(cfg, valid) ==
  {z \in DOMAIN cfg : /\ Midnight(cfg[z].start_date) <= valid[1]
                      /\ Midnight(cfg[z].end_date) >= valid[Len(valid)]}

\* write_control: start time, the site's location and duration, the met
\* files of the directory, the output name (the run directory's name)
Control(site, t, met) ==
  [complete |-> TRUE, start_time |-> t, site |-> site, met_files |-> met,
   output |-> RunName(site, t)]

\* the CONTROL of a write_control call that raised FileNotFoundError: the
\* lines before the met files are written, the rest is missing
Truncated(site, t) ==
  [complete |-> FALSE, start_time |-> t, site |-> site, met_files |-> {},
   output |-> <<>>]

RunDir(site, t, control) == [name |-> RunName(site, t), control |-> control]

\* mkdir(exist_ok=True) and open("w"): the directories of dirs replace the
\* ones of the same name
Written(old, dirs) ==
  {d \in old : \A n \in dirs : n.name # d.name} \cup dirs

Pairs(sites, valid) == {[site |-> z, t |-> h] : z \in sites, h \in Elems(valid)}

\* make_run_dirs(cfg, valid_datetimes)
make_run_dirs(valid) ==
  /\ mat_rounds < MaxRounds
  /\ mat_rounds' = mat_rounds + 1
  /\ mat_valid' = valid
  /\ LET sites == Selected(site_cfg, valid)
     IN  IF sites # {} /\ mat_met = {}
         THEN \* the first write_control raises
              /\ \E z \in sites :
                   job_dirs' = Written(job_dirs,
                                 {RunDir(z, valid[1], Truncated(z, valid[1]))})
              /\ mat_calls' = {}
              /\ mat_pc' = "raised"
              /\ UNCHANGED <<mat_made, mat_twice>>
         ELSE /\ job_dirs' = Written(job_dirs,
                   {RunDir(z, h, Control(z, h, mat_met)) :
                      z \in sites, h \in Elems(valid)})
              /\ mat_calls' = Pairs(sites, valid)
              /\ mat_made' = mat_made \cup Pairs(sites, valid)
              /\ mat_twice' = mat_twice \cup (mat_made \cap Pairs(sites, valid))
              /\ mat_pc' = "done"
  /\ UNCHANGED <<confVars, progVars, histVars, covVars, execVars, site_cfg,
                 mat_met, bdyfiles>>

\* HYSPLIT_Prep.make_run_dirs: its write_control lists the met files inside
\* the with block and has no test for an empty list, so it never raises
Prep_make_run_dirs(valid) ==
  /\ mat_rounds < MaxRounds
  /\ mat_rounds' = mat_rounds + 1
  /\ mat_valid' = valid
  /\ LET sites == Selected(site_cfg, valid)
     IN  /\ job_dirs' = Written(job_dirs,
               {RunDir(z, h, Control(z, h, mat_met)) :
                  z \in sites, h \in Elems(valid)})
         /\ mat_calls' = Pairs(sites, valid)
         /\ mat_made' = mat_made \cup Pairs(sites, valid)
         /\ mat_twice' = mat_twice \cup (mat_made \cap Pairs(sites, valid))
         /\ mat_pc' = "done"
  /\ UNCHANGED <<confVars, progVars, histVars, covVars, execVars, site_cfg,
                 mat_met, bdyfiles>>

\* ------------------------------------------------------ directory cleanup
\* "bdyfiles", "Temp_HYSPLIT_Dirs" (the default temp_HYSPLIT_config_dir), "/", "."
BdyfilesName == <<98, 100, 121, 102, 105, 108, 101, 115>>

TempRootName ==
  <<84, 101, 109, 112, 95, 72, 89, 83, 80, 76, 73, 84, 95, 68, 105, 114, 115>>

Slash == 47

Dot == 46

\* sub in s, for strings
Contains(s, sub) ==
  \E k \in 1..(Len(s) - Len(sub) + 1) : SubSeq(s, k, k + Len(sub) - 1) = sub

\* the bdyfiles directory: absent, or a directory with its files
NoBdy == [exists |-> FALSE, files |-> {}]

BdyDirs ==
  {NoBdy} \cup {[exists |-> TRUE, files |-> F] : F \in SUBSET {"ASCDATA.CFG"}}

\* Preserved that spares nothing
Preserved_None(name) == FALSE

\* clean_hysplit_dirs: if "bdyfiles" in item.name: continue
Preserved(name) == Contains(name, BdyfilesName)

\* remove_run_dirs: "bdyfiles" in str(run_path) or folder.startswith('.')
Skipped(name) ==
  \/ Contains(TempRootName \o <<Slash>> \o name, BdyfilesName)
  \/ (name # <<>> /\ name[1] = Dot)

\* Skytap_Controller.clean_hysplit_dirs: rmtree of every directory of the
\* temporary root that is not preserved
clean_hysplit_dirs ==
  /\ mat_pc \in {"done", "raised", "removed"}
  /\ job_dirs' = {d \in job_dirs : Preserved(d.name)}
  /\ bdyfiles' = IF Preserved(BdyfilesName) THEN bdyfiles ELSE NoBdy
  /\ mat_pc' = "cleaned"
  /\ UNCHANGED <<confVars, progVars, histVars, covVars, execVars, site_cfg,
                 mat_met, mat_valid, mat_calls, mat_made, mat_twice, mat_rounds>>

\* HYSPLIT_Controller.remove_run_dirs: unlink the files of every entry that
\* is not skipped, then rmdir
remove_run_dirs ==
  /\ mat_pc = "done"
  /\ job_dirs' = {d \in job_dirs : Skipped(d.name)}
  /\ bdyfiles' = IF Skipped(BdyfilesName) THEN bdyfiles ELSE NoBdy
  /\ mat_pc' = "removed"
  /\ UNCHANGED <<confVars, progVars, histVars, covVars, execVars, site_cfg,
                 mat_met, mat_valid, mat_calls, mat_made, mat_twice, mat_rounds>>

\* ------------------------------------------------------ parallel executor
Jobs == DOMAIN exec_jobs

JobName(i) == RunName(exec_jobs[i].site, exec_jobs[i].t)

\* a text: a block of visible characters followed by trailing whitespace
Text(b, w) == [body |-> b, trail |-> w]

NoText == Text(0, 0)

TextLen(t) == t.body + t.trail

\* t[-n:], t.strip(), t[:n]
LastChars(t, n) ==
  Text(Min(t.body, n - Min(t.trail, n)), Min(t.trail, n))

Strip(t) == Text(t.body, 0)

FirstChars(t, n) ==
  Text(Min(t.body, n), Min(t.trail, n - Min(t.body, n)))

\* stderr_path.read_text()[-2000:], print(debug.strip()[:800])
TailLimit == 2000

ReportLimit == 800

\* "No debug output or output file missing"
MarkerLen == 38

\* the MESSAGE file of a run directory: absent, or holding a text
NoMessage == [exists |-> FALSE, text |-> NoText]

Message(t) == [exists |-> TRUE, text |-> t]

\* a debug string and what it was taken from
Debug(src, t) == [src |-> src, text |-> t]

\* run_hysplit_in_dir, lines 118-127: the tail of stderr, else the tail of
\* MESSAGE, else the marker
Diagnostic(err, msg) ==
  LET d1 == LastChars(err, TailLimit)
      d2 == LastChars(msg.text, TailLimit)
  IN  IF TextLen(d1) > 0 THEN Debug("stderr", d1)
      ELSE IF msg.exists /\ TextLen(d2) > 0 THEN Debug("message", d2)
      ELSE Debug("marker", Text(MarkerLen, 0))

\* HysplitRunner, line 175: print(debug.strip()[:800])
NotPrinted == [shown |-> FALSE, src |-> "none", text |-> NoText]

Printed(debug) ==
  [shown |-> TRUE, src |-> debug.src,
   text |-> FirstChars(Strip(debug.text), ReportLimit)]

\* what run_hysplit_in_dir returns: three values on the early returns,
\* four after the process has exited
Result3(i, rc) ==
  [len |-> 3, name |-> JobName(i), rc |-> rc, debug |-> Debug("reserved", Text(1, 0))]

Result4(i, rc, debug) ==
  [len |-> 4, run_dir |-> i, name |-> JobName(i), rc |-> rc, debug |-> debug]

NoResult == [len |-> 0]

Pending == [state |-> "pending", result |-> NoResult]

\* a job whose process has not ended yet
NotRun == [how |-> "not", rc |-> 0, out |-> "none", err |-> NoText, msg |-> NoMessage]

Busy == {i \in Jobs : future[i].state = "running"}

\* HysplitRunner: scan TEMP_ROOT, open the pool, submit every run directory
Submit ==
  /\ runner_pc = "idle"
  /\ runner_pc' = "pool"
  /\ future' = [i \in Jobs |-> Pending]
  /\ n_ok' = 0
  /\ n_fail' = 0
  /\ UNCHANGED <<confVars, progVars, histVars, covVars, matVars>>
  /\ UNCHANGED <<max_workers, exec_jobs, procs, out_files, attempts, cleared, exited,
                 counted, printed, traj>>

\* run_hysplit_in_dir launching without removing what the directory holds
run_hysplit_in_dir_KeepsOld(i, ctl, exe) ==
  /\ runner_pc \in {"pool", "unwinding"}
  /\ future[i].state = "pending"
  /\ \A j \in Jobs : future[j].state = "pending" => i <= j
  /\ Cardinality(Busy) < max_workers
  /\ IF ~ctl
     THEN /\ future' = [future EXCEPT ![i] =
                [state |-> "done", result |-> Result3(i, MissingControlCode)]]
          /\ UNCHANGED <<procs, out_files, attempts, cleared>>
     ELSE /\ attempts' = [attempts EXCEPT ![i] = @ + 1]
          /\ UNCHANGED <<out_files, cleared>>
          /\ IF exe
             THEN /\ procs' = procs \cup {i}
                  /\ future' = [future EXCEPT ![i].state = "running"]
             ELSE /\ future' = [future EXCEPT ![i] =
                        [state |-> "done", result |-> Result3(i, ExeNotFoundCode)]]
                  /\ UNCHANGED procs
  /\ UNCHANGED <<confVars, progVars, histVars, covVars, matVars>>
  /\ UNCHANGED <<max_workers, exec_jobs, exited, counted, printed, n_ok, n_fail, traj,
                 runner_pc>>

\* run_hysplit_in_dir started for a pending job whether or not a worker is free
run_hysplit_in_dir_NoLimit(i, ctl, exe) ==
  /\ runner_pc \in {"pool", "unwinding"}
  /\ future[i].state = "pending"
  /\ \A j \in Jobs : future[j].state = "pending" => i <= j
  /\ IF ~ctl
     THEN /\ future' = [future EXCEPT ![i] =
                [state |-> "done", result |-> Result3(i, MissingControlCode)]]
          /\ UNCHANGED <<procs, out_files, attempts, cleared>>
     ELSE /\ out_files' = [out_files EXCEPT ![i] = "none"]
          /\ cleared' = [cleared EXCEPT ![i] = out_files[i]]
          /\ attempts' = [attempts EXCEPT ![i] = @ + 1]
          /\ IF exe
             THEN /\ procs' = procs \cup {i}
                  /\ future' = [future EXCEPT ![i].state = "running"]
             ELSE /\ future' = [future EXCEPT ![i] =
                        [state |-> "done", result |-> Result3(i, ExeNotFoundCode)]]
                  /\ UNCHANGED procs
  /\ UNCHANGED <<confVars, progVars, histVars, covVars, matVars>>
  /\ UNCHANGED <<max_workers, exec_jobs, exited, counted, printed, n_ok, n_fail, traj,
                 runner_pc>>

\* a free worker takes the oldest pending job and enters run_hysplit_in_dir:
\* the CONTROL test, the removal of old outputs, the start of the process
run_hysplit_in_dir(i, ctl, exe) ==
  /\ runner_pc \in {"pool", "unwinding"}
  /\ future[i].state = "pending"
  /\ \A j \in Jobs : future[j].state = "pending" => i <= j
  /\ Cardinality(Busy) < max_workers
  /\ IF ~ctl
     THEN /\ future' = [future EXCEPT ![i] =
                [state |-> "done", result |-> Result3(i, MissingControlCode)]]
          /\ UNCHANGED <<procs, out_files, attempts, cleared>>
     ELSE /\ out_files' = [out_files EXCEPT ![i] = "none"]
          /\ cleared' = [cleared EXCEPT ![i] = out_files[i]]
          /\ attempts' = [attempts EXCEPT ![i] = @ + 1]
          /\ IF exe
             THEN /\ procs' = procs \cup {i}
                  /\ future' = [future EXCEPT ![i].state = "running"]
             ELSE /\ future' = [future EXCEPT ![i] =
                        [state |-> "done", result |-> Result3(i, ExeNotFoundCode)]]
                  /\ UNCHANGED procs
  /\ UNCHANGED <<confVars, progVars, histVars, covVars, matVars>>
  /\ UNCHANGED <<max_workers, exec_jobs, exited, counted, printed, n_ok, n_fail, traj,
                 runner_pc>>

\* the HYSPLIT process ends by itself: rc, the output file it wrote (none:
\* the directory keeps what it held), its stderr and its MESSAGE; lines 102-127
ProcessExits(i, rc, out, err, msg) ==
  /\ i \in procs
  /\ procs' = procs \ {i}
  /\ LET outfile == IF out = "none" THEN out_files[i] ELSE out
     IN  /\ out_files' = [out_files EXCEPT ![i] = outfile]
         /\ future' = [future EXCEPT ![i] =
              [state |-> "done",
               result |-> IF rc = 0 /\ outfile \in {"data", "stale"}
                          THEN Result4(i, 0, Debug("ok", Text(2, 0)))
                          ELSE Result4(i, rc, Diagnostic(err, msg))]]
  /\ exited' = [exited EXCEPT ![i] =
       [how |-> "exit", rc |-> rc, out |-> out, err |-> err, msg |-> msg]]
  /\ UNCHANGED <<confVars, progVars, histVars, covVars, matVars>>
  /\ UNCHANGED <<max_workers, exec_jobs, attempts, cleared, counted, printed,
                 n_ok, n_fail, traj, runner_pc>>

\* subprocess.run(timeout=...) kills the process and raises TimeoutExpired
ProcessTimesOut(i) ==
  /\ i \in procs
  /\ procs' = procs \ {i}
  /\ exited' = [exited EXCEPT ![i] =
       [how |-> "killed", rc |-> TimeoutCode, out |-> "none", err |-> NoText,
        msg |-> NoMessage]]
  /\ future' = [future EXCEPT ![i] =
       [state |-> "done", result |-> Result3(i, TimeoutCode)]]
  /\ UNCHANGED <<confVars, progVars, histVars, covVars, matVars>>
  /\ UNCHANGED <<max_workers, exec_jobs, out_files, attempts, cleared, counted, printed, n_ok,
                 n_fail, traj, runner_pc>>

\* for fut in as_completed(futures): unpack the result, count it, move the
\* output of a job with rc == 0 to the directory of its site
Collect(i) ==
  /\ runner_pc = "pool"
  /\ future[i].state = "done"
  /\ future' = [future EXCEPT ![i].state = "taken"]
  /\ LET r == future[i].result
     IN  IF r.len # 4
         THEN \* run_dir, name, rc, debug = fut.result() raises ValueError
              /\ runner_pc' = "unwinding"
              /\ UNCHANGED <<n_ok, n_fail, counted, printed, traj, out_files>>
         ELSE IF r.rc = 0
         THEN /\ n_ok' = n_ok + 1
              /\ counted' = [counted EXCEPT ![i] = "ok"]
              /\ UNCHANGED printed
              /\ IF out_files[r.run_dir] # "none"
                 THEN /\ traj' = traj \cup {[dir |-> SplitFirst(r.name),
                                             file |-> r.name,
                                             size |-> out_files[r.run_dir]]}
                      /\ out_files' = [out_files EXCEPT ![r.run_dir] = "none"]
                 ELSE UNCHANGED <<traj, out_files>>
              /\ UNCHANGED <<n_fail, runner_pc>>
         ELSE /\ n_fail' = n_fail + 1
              /\ counted' = [counted EXCEPT ![i] = "fail"]
              /\ printed' = [printed EXCEPT ![i] = Printed(r.debug)]
              /\ UNCHANGED <<n_ok, traj, out_files, runner_pc>>
  /\ UNCHANGED <<confVars, progVars, histVars, covVars, matVars>>
  /\ UNCHANGED <<max_workers, exec_jobs, procs, attempts, cleared, exited>>

\* every future was yielded: the pool closes, "All done. Successful: ..."
Summary ==
  /\ runner_pc = "pool"
  /\ \A i \in Jobs : future[i].state = "taken"
  /\ runner_pc' = "summary"
  /\ UNCHANGED <<confVars, progVars, histVars, covVars, matVars>>
  /\ UNCHANGED <<max_workers, exec_jobs, future, procs, out_files, attempts, cleared,
                 exited, counted, printed, n_ok, n_fail, traj>>

\* PoolExit that does not wait for the jobs still pending or running
PoolExit_NoWait ==
  /\ runner_pc = "unwinding"
  /\ runner_pc' = "traceback"
  /\ UNCHANGED <<confVars, progVars, histVars, covVars, matVars>>
  /\ UNCHANGED <<max_workers, exec_jobs, future, procs, out_files, attempts, cleared,
                 exited, counted, printed, n_ok, n_fail, traj>>

\* the exception leaves the with block: shutdown(wait=True) returns once no
\* job is pending or running, then the traceback ends the runner
PoolExit ==
  /\ runner_pc = "unwinding"
  /\ \A i \in Jobs : future[i].state \in {"done", "taken"}
  /\ runner_pc' = "traceback"
  /\ UNCHANGED <<confVars, progVars, histVars, covVars, matVars>>
  /\ UNCHANGED <<max_workers, exec_jobs, future, procs, out_files, attempts, cleared,
                 exited, counted, printed, n_ok, n_fail, traj>>

\* HysplitRunner has ended, with its summary or with a traceback
RunnerEnded == runner_pc \in {"summary", "traceback"}

\* ------------------------------------------- a cycle with its executor
\* HYSPLIT_Controller.__main__, line 259: subprocess.run of HYSPLIT_Runner.py
\* on the job directories make_run_dirs has just written (one site, "A")
LaunchRunner ==
  /\ pc = "JOBS"
  /\ runner_pc = "idle"
  /\ LET batch == SortedJobs({[site |-> <<65>>, t |-> h] : h \in run_dirs})
     IN  /\ exec_jobs' = batch
         /\ future' = [i \in DOMAIN batch |-> Pending]
         /\ out_files' = [i \in DOMAIN batch |-> "none"]
         /\ attempts' = [i \in DOMAIN batch |-> 0]
         /\ cleared' = [i \in DOMAIN batch |-> "none"]
         /\ exited' = [i \in DOMAIN batch |-> NotRun]
         /\ counted' = [i \in DOMAIN batch |-> "none"]
         /\ printed' = [i \in DOMAIN batch |-> NotPrinted]
  /\ procs' = {}
  /\ n_ok' = 0
  /\ n_fail' = 0
  /\ runner_pc' = "pool"
  /\ UNCHANGED <<confVars, progVars, histVars, covVars, matVars, max_workers,
                 traj>>

\* HYSPLIT_Controller.__main__, lines 259-263: subprocess.run returns when the
\* runner has ended, whatever its exit status; then remove_run_dirs unlinks
\* every file of every run directory and removes the directory
RunnerReturns ==
  /\ pc = "JOBS"
  /\ RunnerEnded
  /\ runner_pc' = "idle"
  /\ run_dirs' = {}
  /\ control_met' = <<>>
  /\ out_files' = [i \in Jobs |-> "none"]
  /\ pc' = "CLEANUP"
  /\ UNCHANGED <<confVars, histVars, covVars, matVars, state_idx, current_idx,
                 on_disk_urls, met_dir, temp_list, valid_datetimes, cov_input>>
  /\ UNCHANGED <<max_workers, exec_jobs, future, procs, attempts, cleared, exited,
                 counted, printed, n_ok, n_fail, traj>>

\* ------------------------------------------------------- specifications
\* before a run: an empty input directory, nothing done yet
FreshDisk ==
  /\ pc = "START"
  /\ current_idx = 0
  /\ on_disk_urls = <<>>
  /\ met_dir = {}
  /\ temp_list = NoFile
  /\ run_dirs = {}
  /\ valid_datetimes = <<>>
  /\ cov_input = <<>>
  /\ control_met = <<>>
  /\ saved_idx = 0
  /\ resumed = FALSE
  /\ windows = <<>>
  /\ covered = {}
  /\ fetched = <<>>
  /\ evictions = <<>>
  /\ completed = {}
  /\ reprocessed = FALSE
  /\ crash_cursor = -1
  /\ degraded = FALSE
  /\ runs = 0

\* a fresh installation: no state file, load_state returns {}
Fresh ==
  /\ state_idx = 0
  /\ FreshDisk

CovIdle ==
  /\ met_files = <<>>
  /\ cov_result = Returned(<<>>)
  /\ cov_jobs = {}
  /\ cov_pc = "idle"

RunnerIdle ==
  /\ exec_jobs = <<>>
  /\ future = <<>>
  /\ procs = {}
  /\ out_files = <<>>
  /\ attempts = <<>>
  /\ cleared = <<>>
  /\ exited = <<>>
  /\ counted = <<>>
  /\ printed = <<>>
  /\ n_ok = 0
  /\ n_fail = 0
  /\ traj = {}
  /\ runner_pc = "idle"

ExecIdle == max_workers = 1 /\ RunnerIdle

MatIdle ==
  /\ site_cfg = <<>>
  /\ mat_met = {}
  /\ job_dirs = {}
  /\ mat_valid = <<>>
  /\ mat_calls = {}
  /\ mat_made = {}
  /\ mat_twice = {}
  /\ mat_rounds = 0
  /\ mat_pc = "idle"
  /\ bdyfiles = NoBdy

UnitsIdle == CovIdle /\ ExecIdle /\ MatIdle

Init ==
  /\ total_files \in 0..MaxFiles
  /\ window_size \in 1..MaxWindow
  /\ step \in 1..MaxStep
  /\ Fresh
  /\ UnitsIdle

Next ==
  \/ StartRun
  \/ \E o \in FetchOutcomes : FetchInitial(o)
  \/ Materialize
  \/ \E ok \in BOOLEAN : RunJobs(ok)
  \/ \E c \in BOOLEAN : Prompt(c)
  \/ Clean
  \/ Finish
  \/ Evict({})
  \/ Persist
  \/ \E o \in FetchOutcomes : FetchNext(o)
  \/ Crash
  \/ Rerun

Spec == Init /\ [][Next]_vars

\* an uninterrupted run on a fresh installation: every fetch and every cycle
\* succeeds, nothing crashes
NextRun ==
  \/ StartRun
  \/ FetchInitial("ok")
  \/ Materialize
  \/ RunJobs(TRUE)
  \/ Clean
  \/ Finish
  \/ Evict({})
  \/ Persist
  \/ FetchNext("ok")

RunSpec == Init /\ [][NextRun]_vars /\ WF_vars(NextRun)

\* the end-to-end scenario of the design: 10 files, the default window and step
DefaultWindow == 6

DefaultStep == 4

InitScenario ==
  /\ total_files = DefaultWindow + DefaultStep
  /\ window_size = DefaultWindow
  /\ step = DefaultStep
  /\ Fresh
  /\ UnitsIdle

ScenarioSpec == InitScenario /\ [][Next]_vars

\* ---------------------------------- get_date_range called on its own
Kinds == {"dotted", "underscore"}

FileNames == {FileName(k, s) : k \in Kinds, s \in 0..MaxSlot}

Lists == UNION {[1..n -> FileNames] : n \in 0..MaxList}

InitCov ==
  /\ met_files \in Lists
  /\ cov_result = Returned(<<>>)
  /\ cov_jobs = {}
  /\ cov_pc = "idle"
  /\ total_files = 0
  /\ window_size = 1
  /\ step = 1
  /\ Fresh
  /\ ExecIdle
  /\ MatIdle

\* HYSPLIT_Controller.__main__ on the list met_files
ControllerMain ==
  /\ cov_pc = "idle"
  /\ LET r == get_date_range(met_files)
     IN  /\ cov_result' = r
         /\ cov_jobs' = JobDirs(r.value)
  /\ cov_pc' = "HYSPLIT_Controller"
  /\ UNCHANGED <<confVars, progVars, histVars, execVars, matVars, met_files>>

\* HYSPLIT_Prep.__main__ on the list met_files
PrepMain ==
  /\ cov_pc = "idle"
  /\ LET r == Prep_get_date_range(met_files)
     IN  /\ cov_result' = r
         /\ cov_jobs' = IF r.raised THEN {} ELSE Elems(r.value)
  /\ cov_pc' = "HYSPLIT_Prep"
  /\ UNCHANGED <<confVars, progVars, histVars, execVars, matVars, met_files>>

NextCov == ControllerMain \/ PrepMain

CovSpec == InitCov /\ [][NextCov]_vars

\* ================================================================ claims
\* the first cycle of a run
FirstCycle ==
  \/ pc = "PROCESS" /\ windows = <<>>
  \/ pc \in {"JOBS", "PROMPT", "CLEANUP"} /\ Len(windows) = 1

\* C1: the state file's cursor is never written while a cycle is in PROCESS
\* (from the start of HYSPLIT_Controller to the end of clean_hysplit_dirs): it
\* stays at the cursor the cycle started with, so a crash in PROCESS leaves it
\* there, and the restarted run that resumes from it processes the same window
\* [cursor, cursor + window_size) first.
C1_CursorFixedInProcess ==
  /\ [](/\ pc \in ProcessPhase => state_idx = current_idx
        /\ (pc = "START" /\ crash_cursor >= 0) => state_idx = crash_cursor
        /\ (FirstCycle /\ crash_cursor >= 0) =>
              /\ current_idx = crash_cursor
              /\ on_disk_urls = Window(crash_cursor))
  /\ [][(pc \in ProcessPhase) => (state_idx' = state_idx)]_vars

\* a crash in the PROCESS phase of a cycle at a cursor > 0, and the resumed run
\* is executing the jobs of its first cycle
C1_Witness ==
  /\ crash_cursor > 0
  /\ resumed
  /\ pc = "JOBS"
  /\ Len(windows) = 1

\* C2: a run that starts with a saved cursor c, 0 < c < total_files, and whose
\* resume is accepted first asks download_arl_files for exactly the files
\* c .. min(c + window_size, total_files) - 1, starts its first cycle at c, and
\* never starts a cycle at a cursor below c.
C2_ResumeAtCursor ==
  (resumed /\ pc # "START") =>
    /\ current_idx >= saved_idx
    /\ fetched # <<>> =>
         fetched[1] = Range(saved_idx, Min(saved_idx + window_size, total_files))
    /\ windows # <<>> => windows[1] = saved_idx
    /\ \A i \in DOMAIN windows : windows[i] >= saved_idx

\* a resumed run that has started its second cycle
C2_Witness ==
  /\ resumed
  /\ saved_idx > 0
  /\ Len(windows) = 2
  /\ Len(fetched) = 2

Last(s) == s[Len(s)]

C4_Terminates ==
  /\ [](step <= window_size => Len(windows) <= Ceil(total_files, step))
  /\ <>(step <= window_size => pc = "DONE")

\* a finished run of three cycles that used the whole allowance
C4_Witness ==
  /\ pc = "DONE"
  /\ step <= window_size
  /\ Len(windows) = 3
  /\ Len(windows) = Ceil(total_files, step)

RunWindows ==
  {c \in 0..(total_files - 1) :
     /\ c % step = 0
     /\ c = 0 \/ c - step + window_size < total_files}

\* every window below the saved cursor has had a cycle that ran and was
\* cleaned up
NoSkip == \A c \in RunWindows : c < state_idx => c \in completed

\* C6 as claimed: whatever the point of the crash, a restart with resume skips
\* no window and gives no window whose cycle had completed a second cycle.
C6_NoSkipNoRepeat == NoSkip /\ ~reprocessed

\* C6 as amended: whatever the point of the crash, a restart with resume skips
\* no window, and no cycle runs at a cursor below the saved one: a window whose
\* advance has been saved is not processed again.  (A window whose cycle had
\* completed but whose advance was not yet saved is processed again.)
C6_NoSkipNoCommittedRepeat ==
  /\ NoSkip
  /\ pc \in ProcessPhase => current_idx >= state_idx

\* a resumed run executing the jobs of a window that an earlier run had
\* completed without saving the advance
C6_Witness ==
  /\ resumed
  /\ reprocessed
  /\ pc = "JOBS"
  /\ current_idx \in completed
  /\ state_idx = current_idx

\* the executor on its own: HYSPLIT_Runner.py run on a directory of jobs
SiteNames == {<<65>>, <<65, Underscore, 66>>}    \* "A", "A_B"

JobsOf(S, n) ==
  {[site |-> z, t |-> h] : z \in S, h \in LookbackHours..(LookbackHours + n - 1)}

Batches ==
  {B \in {JobsOf(S, n) : S \in SUBSET SiteNames, n \in 0..MaxJobs} :
     Cardinality(B) <= MaxJobs}

\* what a run directory may hold of an earlier attempt
StaleFiles == {"none", "stale"}

InitExec ==
  /\ max_workers \in 1..MaxWorkers
  /\ \E B \in Batches : exec_jobs = SortedJobs(B)
  /\ future = [i \in Jobs |-> Pending]
  /\ procs = {}
  /\ out_files \in [Jobs -> StaleFiles]
  /\ attempts = [i \in Jobs |-> 0]
  /\ cleared = [i \in Jobs |-> "none"]
  /\ exited = [i \in Jobs |-> NotRun]
  /\ counted = [i \in Jobs |-> "none"]
  /\ printed = [i \in Jobs |-> NotPrinted]
  /\ n_ok = 0
  /\ n_fail = 0
  /\ traj = {}
  /\ runner_pc = "idle"
  /\ total_files = 0
  /\ window_size = 1
  /\ step = 1
  /\ Fresh
  /\ CovIdle
  /\ MatIdle

ExitCodes == {0, 1}

OutputFiles == {"none", "empty", "data"}

NextExec ==
  \/ Submit
  \/ \E i \in Jobs, ctl, exe \in BOOLEAN : run_hysplit_in_dir(i, ctl, exe)
  \/ \E i \in Jobs, rc \in ExitCodes, out \in OutputFiles :
       ProcessExits(i, rc, out, Text(1, 1), NoMessage)
  \/ \E i \in Jobs : ProcessTimesOut(i)
  \/ \E i \in Jobs : Collect(i)
  \/ Summary
  \/ PoolExit

ExecSpec == InitExec /\ [][NextExec]_vars

\* one day of files, a window of three and a step of one, each cycle's jobs
\* run by the executor
InitCycle ==
  /\ total_files = FilesPerDay
  /\ window_size = FilesPerDay - 1
  /\ step = 1
  /\ Fresh
  /\ CovIdle
  /\ max_workers \in 1..MaxWorkers
  /\ RunnerIdle
  /\ MatIdle

NextCycle ==
  \/ StartRun
  \/ FetchInitial("ok")
  \/ Materialize
  \/ LaunchRunner
  \/ \E i \in Jobs : run_hysplit_in_dir(i, TRUE, TRUE)
  \/ \E i \in Jobs, rc \in ExitCodes :
       ProcessExits(i, rc, IF rc = 0 THEN "data" ELSE "none", Text(1, 1), NoMessage)
  \/ \E i \in Jobs : ProcessTimesOut(i)
  \/ \E i \in Jobs : Collect(i)
  \/ Summary
  \/ PoolExit
  \/ RunnerReturns
  \/ Clean
  \/ Finish
  \/ Evict({})
  \/ Persist
  \/ FetchNext("ok")

CycleSpec == InitCycle /\ [][NextCycle]_vars

\* the materializer on its own: make_run_dirs on a site registry, a list of
\* valid hours and a directory of met files
DateRanges ==
  {r \in [start_date : 0..MaxDay, end_date : 0..MaxDay] :
     r.start_date <= r.end_date}

ValidHourLists ==
  {Range(a, b + 1) :
     a, b \in (HoursPerDay - MaxSpan - 1)..(HoursPerDay + MaxSpan - 1)}
    \ {<<>>}

MatStart ==
  /\ site_cfg \in [SiteNames -> DateRanges]
  /\ mat_met \in {{}, {0, 1}}
  /\ job_dirs = {}
  /\ mat_valid = <<>>
  /\ mat_calls = {}
  /\ mat_made = {}
  /\ mat_twice = {}
  /\ mat_rounds = 0
  /\ mat_pc = "idle"
  /\ total_files = 0
  /\ window_size = 1
  /\ step = 1
  /\ Fresh
  /\ CovIdle
  /\ ExecIdle

InitMat == MatStart /\ bdyfiles = NoBdy

NextMat == \E valid \in ValidHourLists : make_run_dirs(valid)

MatSpec == InitMat /\ [][NextMat]_vars

\* the nominal hours of the files of the window at cursor c
WindowHours(c) == {StartTime(UrlOf(i)) : i \in Elems(Window(c))}

\* C7: in every cycle, also after a rotation, the list read by get_met_files
\* and given to get_date_range is the whole current window
\* all_urls[current_idx : current_idx + window_size], so valid_datetimes runs
\* from the window's earliest nominal hour + 12 to its latest + 5
\* (configurations with step <= window_size, every fetch and job succeeding).
C7_CoverageFromWindow ==
  (pc \in {"JOBS", "CLEANUP"} /\ windows # <<>> /\ step <= window_size) =>
    /\ cov_input = Window(current_idx)
    /\ valid_datetimes =
         Range(SetMin(WindowHours(current_idx)) + LookbackHours,
               SetMax(WindowHours(current_idx)) + CoverageHours + 1)

\* the calculator has run on the list met_files
CovDone == cov_pc # "idle"

Nominal == Elems(FileStartTimes(met_files))

EarliestValid == SetMin(Nominal) + LookbackHours

LatestValid == SetMax(Nominal) + CoverageHours

C9_LengthIsSpan ==
  (CovDone /\ met_files # <<>>) =>
    LET v == cov_result.value
    IN  /\ Len(v) = LatestValid - EarliestValid + 1
        /\ \A i \in 1..(Len(v) - 1) : v[i + 1] = v[i] + 1

\* C9: for every non-empty list the number of hours returned is
\* latest_valid - earliest_valid + 1 when that is positive and zero otherwise
\* (a single file, or files less than 7 hours apart, give no hour at all);
\* consecutive entries are one hour apart, ascending.
C9_LengthIsClampedSpan ==
  (CovDone /\ met_files # <<>>) =>
    LET v == cov_result.value
    IN  /\ Len(v) = Max(0, LatestValid - EarliestValid + 1)
        /\ \A i \in 1..(Len(v) - 1) : v[i + 1] = v[i] + 1

C9_Witness ==
  /\ cov_pc = "HYSPLIT_Controller"
  /\ Len(met_files) = 1
  /\ LatestValid - EarliestValid + 1 < 0
  /\ cov_result = Returned(<<>>)

\* C10: on an empty list every get_date_range of the repository returns an
\* empty sequence without raising, and the cycle creates no job.
C10_EmptyIsEmpty ==
  (CovDone /\ met_files = <<>>) =>
    /\ ~cov_result.raised
    /\ cov_result.value = <<>>
    /\ cov_jobs = {}

\* C11: whatever the jobs of a batch do (success, non-zero exit, timeout,
\* missing descriptor, executable not found), HysplitRunner ends with every
\* result taken and counted, succeeded + failed = number of jobs, and the
\* summary printed.
C11_BatchAlwaysSummarised ==
  RunnerEnded =>
    /\ runner_pc = "summary"
    /\ \A i \in Jobs : future[i].state = "taken" /\ counted[i] \in {"ok", "fail"}
    /\ n_ok + n_fail = Len(exec_jobs)

TimedOut == {i \in Jobs : exited[i].how = "killed"}

\* C12: a job whose process exceeds the timeout is not running once it has
\* been classified, is classified as a timeout and counted as failed, and
\* its siblings are collected and the summary printed all the same.
C12_TimeoutIsolated ==
  /\ \A i \in TimedOut :
       i \notin procs /\ future[i].result.rc = TimeoutCode
  /\ (RunnerEnded /\ TimedOut # {}) =>
       /\ runner_pc = "summary"
       /\ \A i \in TimedOut : counted[i] = "fail"
       /\ \A j \in Jobs \ TimedOut :
            future[j].result.len = 4 => counted[j] \in {"ok", "fail"}

\* the model run of job i met the success condition
Succeeded(i) ==
  exited[i].how = "exit" /\ exited[i].rc = 0 /\ exited[i].out = "data"

Archived(i) == \E e \in traj : e.file = JobName(i)

\* C13: a job is counted as succeeded, and its output moved to the archive,
\* exactly when the model exited 0 and left a non-empty output file; exit 0
\* with an empty or missing output is a failed job and archives nothing.
C13_SuccessIffOutput ==
  \A i \in Jobs :
    counted[i] # "none" =>
      /\ counted[i] = "ok" <=> Succeeded(i)
      /\ Archived(i) <=> Succeeded(i)

\* C14: the output of a successful job of site s is in the archive directory
\* s and no longer in the job directory, for every site identifier, also one
\* that contains "_"; two sites never share an archive directory.
C14_ArchiveBySite ==
  /\ \A i \in Jobs :
       (counted[i] = "ok" /\ Succeeded(i)) =>
         /\ [dir |-> exec_jobs[i].site, file |-> JobName(i), size |-> "data"]
               \in traj
         /\ out_files[i] = "none"
  /\ \A i, j \in Jobs :
       (Archived(i) /\ Archived(j) /\ exec_jobs[i].site # exec_jobs[j].site) =>
         \A e, f \in traj :
           (e.file = JobName(i) /\ f.file = JobName(j)) => e.dir # f.dir

\* C15: never more than max_workers HYSPLIT processes at once, and every job
\* directory with a CONTROL file is run exactly once in the batch.
C15_BoundedPool ==
  /\ Cardinality(procs) <= max_workers
  /\ \A i \in Jobs : attempts[i] <= 1
  /\ RunnerEnded =>
       \A i \in Jobs :
         future[i].result.rc # MissingControlCode => attempts[i] = 1

C15_Witness ==
  /\ runner_pc = "pool"
  /\ Cardinality(procs) = max_workers
  /\ \E i \in Jobs : future[i].state = "pending"
  /\ \A i \in procs : attempts[i] = 1

\* every job of the batch has returned from run_hysplit_in_dir
AllReported == \A i \in Jobs : future[i].state \in {"done", "taken"}

\* C16: no input file is evicted and no job directory removed while a HYSPLIT
\* process of the cycle is alive, and the rotation does not start before
\* every job of the cycle has reported.
C16_NoOverlap ==
  /\ [](pc \in {"CLEANUP", "ADVANCE", "EVICTED", "SAVED"} =>
          (procs = {} /\ AllReported))
  /\ [][(~(met_dir \subseteq met_dir') \/ ~(run_dirs \subseteq run_dirs')) =>
          (procs = {} /\ AllReported)]_vars

C16_Witness ==
  /\ pc = "EVICTED"
  /\ Len(exec_jobs) > max_workers
  /\ \E i \in Jobs : exited[i].how = "killed"
  /\ \E i \in Jobs : counted[i] = "ok"
  /\ procs = {}

\* the sites whose [start_date, end_date] contains the whole of mat_valid
Containing ==
  {z \in DOMAIN site_cfg :
     /\ Midnight(site_cfg[z].start_date) <= SetMin(Elems(mat_valid))
     /\ Midnight(site_cfg[z].end_date) >= SetMax(Elems(mat_valid))}

C18_JobForEveryHourInRange ==
  mat_pc = "done" =>
    \A z \in DOMAIN site_cfg, h \in Elems(mat_valid) :
      (Midnight(site_cfg[z].start_date) <= h /\ h <= Midnight(site_cfg[z].end_date))
        => /\ [site |-> z, t |-> h] \in mat_calls
           /\ \E d \in job_dirs : d.name = RunName(z, h) /\ d.control.complete

\* every hour a list of ValidHourLists can hold
NameHours == UNION {Elems(v) : v \in ValidHourLists}

\* C19: materializing a (site, hour) again leaves one directory
\* {site}_{YYYYMMDD}_{HH} whose CONTROL is the one a single materialization
\* writes, and two different (site, hour) pairs never share a directory name.
C19_Idempotent ==
  /\ \A d, e \in job_dirs : d.name = e.name => d = e
  /\ \A pr \in mat_made :
       RunDir(pr.site, pr.t, Control(pr.site, pr.t, mat_met)) \in job_dirs
  /\ Cardinality({d \in job_dirs : d.control.complete}) = Cardinality(mat_made)
  /\ \A y, z \in SiteNames, g, h \in NameHours :
       RunName(y, g) = RunName(z, h) => (y = z /\ g = h)

C19_Witness ==
  /\ mat_rounds = 2
  /\ mat_twice # {}
  /\ mat_made \ mat_twice # {}
  /\ Cardinality(job_dirs) = Cardinality(mat_made)

\* C20: a run that finds a saved cursor >= N (N > 0) rewrites the state file
\* to 0 before any fetch and processes [0, min(window_size, N)) first.
C20_ResetWhenFinished ==
  (pc # "START" /\ saved_idx >= total_files /\ total_files > 0) =>
    /\ pc = "FETCH_INITIAL" => (state_idx = 0 /\ fetched = <<>>)
    /\ fetched # <<>> =>
         fetched[1] = UrlSlice(0, Min(window_size, total_files))
    /\ windows # <<>> => windows[1] = 0
    /\ ~resumed

C20_Witness ==
  /\ saved_idx >= total_files
  /\ total_files > window_size
  /\ Len(windows) > 1
  /\ windows[1] = 0
  /\ pc = "DONE"
  /\ state_idx = total_files

\* C21: a call of download_arl_files with a non-empty list returns normally
\* only if every requested file is then in the input directory; whenever the
\* manifest cannot be written, the downloader fails or a file is missing, the
\* caller sees the failure (main goes on to PROCESS only after a normal return).
C21_FetchPostcondition ==
  pc = "PROCESS" => Elems(Last(fetched)) \subseteq met_dir

\* C22: a failed fetch of the initial batch (a requested file is not in the
\* input directory afterwards) aborts the run: no cycle has started, nothing
\* is evicted, and the saved cursor keeps the value INIT left.
C22_InitialFetchFailureAborts ==
  [][(/\ pc = "FETCH_INITIAL"
      /\ pc' \notin {"FETCH_INITIAL", "START"}
      /\ ~(Elems(Window(current_idx)) \subseteq met_dir'))
       => /\ pc' = "ABORTED"
          /\ state_idx' = state_idx
          /\ windows' = <<>>
          /\ evictions' = <<>>
          /\ met_dir \subseteq met_dir']_vars

\* runs whose fetches and cycles all succeed, on an installation where the
\* process may die at any point and the pipeline may be started again
NextRestart ==
  \/ StartRun
  \/ FetchInitial("ok")
  \/ Materialize
  \/ RunJobs(TRUE)
  \/ Clean
  \/ Finish
  \/ Evict({})
  \/ Persist
  \/ FetchNext("ok")
  \/ Crash
  \/ Rerun

RestartSpec == Init /\ [][NextRestart]_vars

\* C23: with 1 <= step <= window_size and every fetch succeeding, the input
\* directory never holds more than window_size files, also in a run that
\* starts again from cursor 0 after a finished run or a declined resume.
C23_DiskBound ==
  step <= window_size => Cardinality(met_dir) <= window_size

\* C24: once the job directories of a cycle have been removed (and whenever
\* the cursor moves past the cycle's window), the output of every job of the
\* cycle whose HYSPLIT run exited 0 with a non-empty output is in the archive,
\* also when another job of the batch timed out or had no CONTROL.
C24_NoSuccessLost ==
  pc \in {"CLEANUP", "ADVANCE", "EVICTED", "SAVED"} =>
    \A i \in Jobs : Succeeded(i) => Archived(i)

\* the default window and step on a list of at least window_size files
InitDefaults ==
  /\ total_files \in DefaultWindow..(DefaultWindow + DefaultStep + MaxFiles)
  /\ window_size = DefaultWindow
  /\ step = DefaultStep
  /\ Fresh
  /\ UnitsIdle

DefaultsSpec == InitDefaults /\ [][NextRun]_vars

\* C25: 6-hourly files, window_size 6, step 4, at least 6 files, an
\* uninterrupted run with every fetch succeeding: the valid hours of all the
\* cycles together are exactly the hours from the first file's nominal hour
\* + 12 to the last file's nominal hour + 5, none missing in between.
C25_GapFreeCoverage ==
  pc = "DONE" =>
    covered = {h \in 0..(StartTime(UrlOf(total_files - 1)) + CoverageHours) :
                 h >= StartTime(UrlOf(0)) + LookbackHours}

\* the jobs HysplitRunner gets to count when the futures complete in the
\* order of submission: those before the first result it cannot unpack
InOrder ==
  {i \in Jobs : \A j \in Jobs : j <= i => future[j].result.len = 4}

\* C26: the result of a batch depends on the jobs and their outcomes only,
\* not on the order in which they complete: whatever the order, the runner
\* ends with the succeeded and failed counts and the archive it ends with
\* when the jobs complete in the order of submission.
C26_OrderIndependent ==
  RunnerEnded =>
    /\ n_ok = Cardinality({i \in InOrder : future[i].result.rc = 0})
    /\ n_fail = Cardinality({i \in InOrder : future[i].result.rc # 0})
    /\ traj = {[dir |-> SplitFirst(JobName(i)), file |-> JobName(i),
                size |-> exited[i].out] :
                 i \in {j \in InOrder : /\ future[j].result.rc = 0
                                        /\ exited[j].out # "none"}}

\* uninterrupted runs with every fetch succeeding, in which the unlink of a
\* file to evict may raise
NextUnlink ==
  \/ StartRun
  \/ FetchInitial("ok")
  \/ Materialize
  \/ RunJobs(TRUE)
  \/ Clean
  \/ Finish
  \/ \E undeletable \in SUBSET Elems(Head_(on_disk_urls, step)) : Evict(undeletable)
  \/ Persist
  \/ FetchNext("ok")

UnlinkSpec == Init /\ [][NextUnlink]_vars

\* C27: the new cursor is saved only after the step oldest files were
\* deleted: when the deletion of one of them failed, the saved cursor is not
\* advanced.
C27_SavedOnlyAfterEviction ==
  [][(pc = "EVICTED" /\ state_idx' # state_idx) =>
       Last(evictions).failed = {}]_vars

\* the files this run's delete_files calls have removed
Evicted == UNION {evictions[k].deleted : k \in DOMAIN evictions}

\* C28: with 1 <= step <= window_size and every fetch succeeding, at the
\* start of every PROCESS cycle on_disk_urls is the list of the files
\* cursor .. min(cursor + window_size, total_files) - 1 in order: contiguous,
\* at most window_size long, and holding no file the run has evicted.
C28_TrackedWindow ==
  (pc = "PROCESS" /\ step <= window_size) =>
    /\ on_disk_urls = Range(current_idx, Min(current_idx + window_size, total_files))
    /\ Len(on_disk_urls) <= window_size
    /\ Elems(on_disk_urls) \cap Evicted = {}

\* the second rotation of a run started again after a crash: the window was
\* cut short by the end of the list
C28_Witness ==
  /\ pc = "PROCESS"
  /\ runs > 0
  /\ Len(evictions) = 2
  /\ 1 < step
  /\ step < window_size
  /\ Len(on_disk_urls) < window_size
  /\ Evicted # {}

\* C29: the CONTROL files written in a cycle list exactly the files of the
\* current window cursor .. min(cursor + window_size, total_files) - 1, in
\* the order of their names, and no file outside it, also in a run that
\* starts again from cursor 0 while files of an earlier window are still in
\* the input directory.
C29_ControlListsWindow ==
  (pc = "JOBS" /\ step <= window_size) =>
    control_met = SortedMet(Elems(Window(current_idx)))

\* the materializer of either module, HYSPLIT_Controller.py or
\* HYSPLIT_Prep.py, run on the same temporary root
NextMatEither ==
  \/ \E valid \in ValidHourLists : make_run_dirs(valid)
  \/ \E valid \in ValidHourLists : Prep_make_run_dirs(valid)

EitherMatSpec == InitMat /\ [][NextMatEither]_vars

\* C30: when the met directory holds no file with 'hrrr' in its name, a
\* materialization that has a site to write for fails with the missing-input
\* error and creates no job: no run directory holds a CONTROL afterwards, and
\* no CONTROL listing zero met files is ever written, by either module.
C30_NoJobWithoutInput ==
  /\ mat_met = {} =>
       /\ (mat_pc # "idle" /\ Selected(site_cfg, mat_valid) # {}) =>
            mat_pc = "raised"
       /\ job_dirs = {}
  /\ \A d \in job_dirs : d.control.complete => d.control.met_files # {}

\* C31: with 1 <= step <= window_size the saved cursor is always within
\* 0 .. total_files, no write of the processing loop lowers it, and a run
\* that ends normally leaves total_files saved.
C31_CursorRangeMonotone ==
  /\ [](step <= window_size => state_idx \in 0..total_files)
  /\ [][(step <= window_size /\ pc # "START") => state_idx' >= state_idx]_vars
  /\ [](pc = "DONE" /\ step <= window_size => state_idx = total_files)

\* a resumed run has written the cursor twice and ended with total_files
C31_Witness ==
  /\ pc = "DONE"
  /\ resumed
  /\ saved_idx > 0
  /\ step < window_size
  /\ Len(windows) = 2
  /\ state_idx = total_files

\* cycles of the temporary root: the job directories are written, removed by
\* the controller when its runner has returned, and cleaned by main
InitClean == MatStart /\ bdyfiles \in BdyDirs

NextClean ==
  \/ \E valid \in ValidHourLists : make_run_dirs(valid)
  \/ remove_run_dirs
  \/ clean_hysplit_dirs

CleanSpec == InitClean /\ [][NextClean]_vars

C33_StaleCleared ==
  /\ \A i \in Jobs : attempts[i] > 0 => out_files[i] # "stale"
  /\ \A i \in Jobs :
       (exited[i].how = "exit" /\ exited[i].out = "none")
         => /\ future[i].result.debug.src # "ok"
            /\ \A e \in traj : e.file # JobName(i)
  /\ \A e \in traj : e.size # "stale"

C33_Witness ==
  \E i \in Jobs :
    /\ cleared[i] = "stale"
    /\ exited[i].how = "exit"
    /\ exited[i].rc = 0
    /\ exited[i].out = "none"
    /\ future[i].state = "taken"
    /\ counted[i] = "ok"
    /\ runner_pc = "summary"

\* ---------------------------------------------------------------------------
\* the runner with every stderr text and MESSAGE file a failed process may
\* leave
Texts == {NoText, Text(0, 1), Text(1, 1), Text(TailLimit + 1, 1)}

Messages == {NoMessage, Message(NoText), Message(Text(1, 0)), Message(Text(TailLimit + 1, 0))}

NextDiag ==
  \/ Submit
  \/ \E i \in Jobs, ctl \in BOOLEAN, exe \in BOOLEAN : run_hysplit_in_dir(i, ctl, exe)
  \/ \E i \in Jobs, rc \in ExitCodes, out \in {"none", "data"}, err \in Texts,
        msg \in Messages : ProcessExits(i, rc, out, err, msg)
  \/ \E i \in Jobs : ProcessTimesOut(i)
  \/ \E i \in Jobs : Collect(i)
  \/ Summary
  \/ PoolExit

DiagSpec == InitExec /\ [][NextDiag]_vars

\* the job met the success condition: exit code 0 and a non-empty output
C34_Succeeded(i) ==
  exited[i].how = "exit" /\ exited[i].rc = 0 /\ exited[i].out = "data"

\* the source the diagnostic of a failed job is to come from
C34_Expected(i) ==
  IF future[i].result.rc \in {MissingControlCode, TimeoutCode, ExeNotFoundCode}
  THEN "reserved"
  ELSE IF TextLen(exited[i].err) > 0 THEN "stderr"
  ELSE IF exited[i].msg.exists /\ TextLen(exited[i].msg.text) > 0 THEN "message"
  ELSE "marker"

\* C34: failure diagnostic order.  For every job the runner took the result
\* of and that did not meet the success condition, the diagnostic the runner
\* printed is the reserved exit-code message if one applies, else the tail of
\* stderr if stderr is not empty, else the tail of MESSAGE, else the marker;
\* it is not empty and not longer than the report limit.
C34_DiagnosticOrder ==
  \A i \in Jobs :
    (future[i].state = "taken" /\ ~C34_Succeeded(i))
      => /\ printed[i].shown
         /\ printed[i].src = C34_Expected(i)
         /\ TextLen(printed[i].text) \in 1..ReportLimit

\* ---------------------------------------------------------------------------
\* a run that starts on a state file whose current_idx is a negative integer
InitCorrupt ==
  /\ total_files \in 0..MaxFiles
  /\ window_size \in 1..MaxWindow
  /\ step \in 1..MaxStep
  /\ state_idx \in (0 - MaxFiles)..(0 - 1)
  /\ FreshDisk
  /\ UnitsIdle

CorruptSpec == InitCorrupt /\ [][NextRun]_vars

\* C35: StateCorruption is fatal.  A run that read a negative cursor from the
\* state file fetches nothing, evicts nothing, processes no window and leaves
\* the state file as it read it.
C35_CorruptionFatal ==
  saved_idx < 0 =>
    /\ fetched = <<>>
    /\ evictions = <<>>
    /\ windows = <<>>
    /\ pc \in {"START", "FETCH_INITIAL", "DONE"}
    /\ state_idx = saved_idx

====
